---- MODULE Spec2Model ----
(***************************************************************************)
(* Quaternionic Memory Field: the quaternion library (encodeText,          *)
(* jaccardSimilarity, resonanceScore, entanglementStrength), the memory    *)
(* collection owned by the Index page, and the search and clustering of    *)
(* the MemoryDecoder component.                                            *)
(*                                                                         *)
(* Representation of the numbers.                                          *)
(*  - A score (a JavaScript number in [0,1]) is a fixed-point integer in   *)
(*    units of 1/Scale; quotients and products round down.                 *)
(*  - A string is the sequence of its UTF-16 code units.                   *)
(*  - A unit quaternion is kept as an integer vector v that stands for     *)
(*    v/|v| (reduced by the gcd of its components, so that equal unit      *)
(*    quaternions are equal records); normalize is then exact, and dot     *)
(*    divides by the two lengths.                                          *)
(*  - cos and sin are evaluated in hundredths from their power series.     *)
(***************************************************************************)
EXTENDS Integers, Sequences, FiniteSets, TLC

\* ------------------------------------------------------------------ bounds
MaxLen == 3         \* longest text typed into the encoder
MaxSigLen == 3      \* longest array handed to jaccardSimilarity directly
MaxMem == 3         \* most memories held in the collection
MaxIds == 4         \* most memories created in one run of the application
MaxSearches == 2    \* most searches run

\* --------------------------------------------------------------- numbers
Scale == 20 * 50                \* one unit of score = 1/1000
One == Scale
Half == Scale \div 2            \* the default weights alpha = beta = 0.5
TrigScale == 10 * 10            \* cos and sin are kept in hundredths

Abs(a) == IF a < 0 THEN -a ELSE a
Max(a, b) == IF a >= b THEN a ELSE b
Min(a, b) == IF a <= b THEN a ELSE b
Sign(a) == IF a < 0 THEN -1 ELSE IF a > 0 THEN 1 ELSE 0

\* a / b for integers a >= 0, b > 0, as a score
Div(a, b) == (a * Scale) \div b
\* a * b for two scores
Mul(a, b) == (a * b) \div Scale
\* a / b rounded to the nearest integer (b > 0)
RoundDiv(a, b) == (2 * a + b) \div (2 * b)

RECURSIVE Gcd(_, _)
Gcd(a, b) == IF b = 0 THEN a ELSE Gcd(b, a % b)

RECURSIVE SqrtIter(_, _)
SqrtIter(n, x) ==
    LET y == (x + n \div x) \div 2
    IN IF y >= x THEN x ELSE SqrtIter(n, y)
\* Math.sqrt on a non-negative integer, rounded down
Sqrt(n) == IF n = 0 THEN 0 ELSE SqrtIter(n, n)

\* ------------------------------------------------------------ trigonometry
\* Angles are in thousandths of a radian.
Pi == 2 * 1571
TwoPi == 2 * Pi - 1

\* 1 - x2/(a(a+1)) (1 - x2/((a+2)(a+3)) (1 - ...)), eight factors deep, in
\* ten-thousandths; x2 is the squared angle in thousandths.
RECURSIVE Series(_, _, _)
Series(x2, a, depth) ==
    IF depth = 0 THEN 10000
    ELSE 10000 - (x2 * Series(x2, a + 2, depth - 1)) \div (a * (a + 1) * 1000)

\* the angle brought into [0, Pi] by the period and the symmetry about Pi
Reduced(p) == LET r == p % TwoPi IN IF r > Pi THEN TwoPi - r ELSE r

\* Math.cos(p / 1000), in hundredths
Cos(p) ==
    LET r == Reduced(p)
    IN RoundDiv(Series((r * r) \div 1000, 1, 8), 100)

\* Math.sin(p / 1000), in hundredths
Sin(p) ==
    LET r == Reduced(p)
        s == RoundDiv((r * Series((r * r) \div 1000, 2, 8)) \div 1000, 100)
    IN IF p % TwoPi > Pi THEN -s ELSE s

\* the product of two values in hundredths
TrigMul(a, b) == RoundDiv(a * b, TrigScale)

RECURSIVE AcosIter(_, _, _)
\* the least angle between lo (excluded) and hi whose cosine is at most c
AcosIter(c, lo, hi) ==
    IF hi - lo <= 1 THEN hi
    ELSE LET mid == (lo + hi) \div 2
         IN IF Cos(mid) <= c THEN AcosIter(c, lo, mid) ELSE AcosIter(c, mid, hi)
\* Math.acos(c / 100), in thousandths of a radian: acos(-c) is Pi - acos(c)
Acos(c) ==
    IF c < 0 THEN Pi - AcosIter(-c, -1, Pi) ELSE AcosIter(c, -1, Pi)

\* ------------------------------------------------------------- quaternions
createQuaternion(w, x, y, z) == [w |-> w, x |-> x, y |-> y, z |-> z]

Identity == createQuaternion(1, 0, 0, 0)

\* the square of magnitude(q)
magnitude2(q) == q.w * q.w + q.x * q.x + q.y * q.y + q.z * q.z

\* normalize without the fallback for the zero quaternion
normalize_NoFallback(q) ==
    LET g == Gcd(Gcd(Abs(q.w), Abs(q.x)), Gcd(Abs(q.y), Abs(q.z)))
    IN IF g = 0 THEN q
       ELSE createQuaternion(q.w \div g, q.x \div g, q.y \div g, q.z \div g)

\* normalize: the identity for the zero quaternion, else q / |q|, which in
\* this representation is q divided by the gcd of its components
normalize(q) ==
    IF magnitude2(q) = 0 THEN Identity
    ELSE LET g == Gcd(Gcd(Abs(q.w), Abs(q.x)), Gcd(Abs(q.y), Abs(q.z)))
         IN createQuaternion(q.w \div g, q.x \div g, q.y \div g, q.z \div g)

RECURSIVE SqrtDigits(_, _)
\* the largest power of ten K, from K on, for which m * K * K is still an
\* integer of the range: the digits Math.sqrt(m) is taken to
SqrtDigits(m, K) ==
    IF m < 20000000 \div (K * K) THEN SqrtDigits(m, 10 * K) ELSE K

\* dot of two unit quaternions, as a signed score in [-One, One]: the dot
\* product s of the two vectors divided by the product of their lengths
dot(q1, q2) ==
    LET s == q1.w * q2.w + q1.x * q2.x + q1.y * q2.y + q1.z * q2.z
        m == magnitude2(q1) * magnitude2(q2)
        K == SqrtDigits(m, 1)
    IN Sign(s) * ((Abs(s) * Scale * K) \div Sqrt(m * K * K))

\* a product whose cross terms y1*z2 - z1*y2, ... all have the sign +, which
\* makes it commutative
hamiltonProduct_Commutative(q1, q2) ==
    normalize(createQuaternion(
        q1.w * q2.w - q1.x * q2.x - q1.y * q2.y - q1.z * q2.z,
        q1.w * q2.x + q1.x * q2.w + q1.y * q2.z + q1.z * q2.y,
        q1.w * q2.y + q1.x * q2.z + q1.y * q2.w + q1.z * q2.x,
        q1.w * q2.z + q1.x * q2.y + q1.y * q2.x + q1.z * q2.w))

\* hamiltonProduct: Hamilton's product of q1 and q2, normalized
hamiltonProduct(q1, q2) ==
    normalize(createQuaternion(
        q1.w * q2.w - q1.x * q2.x - q1.y * q2.y - q1.z * q2.z,
        q1.w * q2.x + q1.x * q2.w + q1.y * q2.z - q1.z * q2.y,
        q1.w * q2.y - q1.x * q2.z + q1.y * q2.w + q1.z * q2.x,
        q1.w * q2.z + q1.x * q2.y - q1.y * q2.x + q1.z * q2.w))

\* |q| for the integer vector q, in hundredths
Length(q) == Sqrt(magnitude2(q) * TrigScale * TrigScale)

\* normalize(c1 * q1 + c2 * q2) for the unit quaternions q1 and q2, each an
\* integer vector to be divided by its length; the two factors are reduced
\* by their gcd, which leaves the direction as it is
Mix(c1, q1, c2, q2) ==
    LET g == Max(1, Gcd(Abs(c1 * Length(q2)), Abs(c2 * Length(q1))))
        a == (c1 * Length(q2)) \div g
        b == (c2 * Length(q1)) \div g
    IN normalize(createQuaternion(a * q1.w + b * q2.w, a * q1.x + b * q2.x,
                                  a * q1.y + b * q2.y, a * q1.z + b * q2.z))

\* the weights s0 and s1 of slerp away from the linear case, in hundredths;
\* d is the dot product in hundredths, t a score
SlerpWeights(d, t) ==
    LET theta0 == Acos(d)
        theta == (theta0 * t) \div Scale
        sinTheta == Sin(theta)
        sinTheta0 == Sin(theta0)
    IN [s0 |-> Cos(theta) - RoundDiv(d * sinTheta, sinTheta0),
        s1 |-> RoundDiv(sinTheta * TrigScale, sinTheta0)]

\* the normalized linear interpolation from q1 to q2 itself, never negated
slerp_LerpToTarget(q1, q2, t) == Mix(Scale - t, q1, t, q2)

\* slerp: q2 is negated when the dot product is negative, the interpolation
\* is linear when the dot product is above 0.9995, and t is a score
slerp(q1, q2, t) ==
    LET d == Abs(dot(q1, q2))
        q2Adj == IF dot(q1, q2) < 0
                 THEN createQuaternion(-q2.w, -q2.x, -q2.y, -q2.z)
                 ELSE q2
    IN IF 2 * d > 1999 THEN Mix(Scale - t, q1, t, q2Adj)
       ELSE LET s == SlerpWeights(RoundDiv(d * TrigScale, Scale), t)
            IN Mix(s.s0, q1, s.s1, q2Adj)

\* ------------------------------------------------------------------ arrays
Range(s) == {s[i] : i \in 1..Len(s)}

Has(s, x) == \E i \in 1..Len(s) : s[i] = x

\* new Set(array): the distinct values, in order of first occurrence
RECURSIVE NewSet(_)
NewSet(s) ==
    IF s = <<>> THEN <<>>
    ELSE LET front == NewSet(SubSeq(s, 1, Len(s) - 1))
             last == s[Len(s)]
         IN IF Has(front, last) THEN front ELSE Append(front, last)

\* the sequences over S of length 0..n
SeqsUpTo(S, n) == UNION {[1..k -> S] : k \in 0..n}

RECURSIVE Sum(_)
Sum(s) == IF s = <<>> THEN 0 ELSE s[1] + Sum(Tail(s))

\* ------------------------------------------------------------------ strings
Space == 32
\* the code units a text is typed from: ' ', 'A', 'a', 'b', U+00DF (sharp s),
\* U+0130 (capital I with dot above)
Alphabet == {Space, 65, 97, 98, 223, 304}

Texts == SeqsUpTo(Alphabet, MaxLen)

RECURSIVE Flatten(_)
Flatten(ss) == IF ss = <<>> THEN <<>> ELSE ss[1] \o Flatten(Tail(ss))

\* String.prototype.toLowerCase on one code unit of Basic Latin, Latin-1 or
\* U+0130, whose lower case is 'i' followed by U+0307
LowerUnit(c) ==
    IF c \in 65..90 THEN <<c + 32>>
    ELSE IF c \in (192..222) \ {215} THEN <<c + 32>>
    ELSE IF c = 304 THEN <<105, 775>>
    ELSE <<c>>

toLowerCase(text) == Flatten([i \in 1..Len(text) |-> LowerUnit(text[i])])

\* String.prototype.toUpperCase on one code unit of Alphabet: U+00DF has the
\* two-letter upper case "SS"
UpperUnit(c) ==
    IF c \in 97..122 THEN <<c - 32>>
    ELSE IF c = 223 THEN <<83, 83>>
    ELSE <<c>>

toUpperCase(text) == Flatten([i \in 1..Len(text) |-> UpperUnit(text[i])])

\* String.prototype.trim
RECURSIVE trim(_)
trim(text) ==
    IF text = <<>> THEN <<>>
    ELSE IF Head(text) = Space THEN trim(Tail(text))
    ELSE IF text[Len(text)] = Space THEN trim(SubSeq(text, 1, Len(text) - 1))
    ELSE text

\* ------------------------------------------------------------ text encoder
PRIMES == <<
    2, 3, 5, 7, 11, 13, 17, 19, 23, 29, 31, 37, 41, 43, 47, 53, 59, 61, 67, 71,
    73, 79, 83, 89, 97, 101, 103, 107, 109, 113, 127, 131, 137, 139, 149, 151,
    157, 163, 167, 173, 179, 181, 191, 193, 197, 199, 211, 223, 227, 229, 233,
    239, 241, 251, 257, 263, 269, 271, 277, 281, 283, 293, 307, 311, 313, 317,
    331, 337, 347, 349, 353, 359, 367, 373, 379, 383, 389, 397, 401, 409, 419,
    421, 431, 433, 439, 443, 449, 457, 461, 463, 467, 479, 487, 491, 499, 503,
    509, 521, 523, 541 >>

\* the prime pushed for the character with code unit `code` at 0-based
\* position i
PrimeAt(code, i) == PRIMES[((code + i) % Len(PRIMES)) + 1]

\* the array primeSignature before it is deduplicated
PrimeSequence(text) ==
    LET chars == toLowerCase(text)
    IN [k \in 1..Len(chars) |-> PrimeAt(chars[k], k - 1)]

\* the four harmonics added for the prime at 0-based position i
Harmonics(prime, i) ==
    LET phase == prime * (i + 1)
    IN [w |-> Cos(phase),
        x |-> TrigMul(Sin(phase), Cos(phase * 2)),
        y |-> TrigMul(Sin(phase * 2), Cos(phase)),
        z |-> TrigMul(Sin(phase), Sin(phase * 2))]

\* the quaternion encodeText derives from the array primeSignature
HarmonicQuaternion(primeSignature) ==
    LET n == IF Len(primeSignature) = 0 THEN 1 ELSE Len(primeSignature)
        h == [k \in 1..Len(primeSignature) |-> Harmonics(primeSignature[k], k - 1)]
        w == Sum([k \in 1..Len(h) |-> h[k].w])
        x == Sum([k \in 1..Len(h) |-> h[k].x])
        y == Sum([k \in 1..Len(h) |-> h[k].y])
        z == Sum([k \in 1..Len(h) |-> h[k].z])
    IN normalize(createQuaternion(
           RoundDiv(w, n), RoundDiv(x, n), RoundDiv(y, n), RoundDiv(z, n)))

\* encodeText returning the array as it was pushed, duplicates and all
encodeText_NoDedup(text) ==
    LET primeSignature == PrimeSequence(text)
    IN [quaternion |-> HarmonicQuaternion(primeSignature),
        primeSignature |-> primeSignature]

encodeText(text) ==
    LET primeSignature == PrimeSequence(text)
    IN [quaternion |-> HarmonicQuaternion(primeSignature),
        primeSignature |-> NewSet(primeSignature)]

\* ------------------------------------------------- similarity, entanglement
\* jaccardSimilarity dividing by the two sizes added up
jaccardSimilarity_Concat(sig1, sig2) ==
    LET set1 == NewSet(sig1)
        set2 == NewSet(sig2)
        InSet2(x) == Has(set2, x)
        intersection == NewSet(SelectSeq(set1, InSet2))
        union == set1 \o set2
    IN IF Len(union) = 0 THEN 0 ELSE Div(Len(intersection), Len(union))

\* jaccardSimilarity filtering the array itself, not the set of its values
jaccardSimilarity_RawIntersection(sig1, sig2) ==
    LET set2 == NewSet(sig2)
        InSet2(x) == Has(set2, x)
        intersection == SelectSeq(sig1, InSet2)
        union == NewSet(sig1 \o sig2)
    IN IF Len(union) = 0 THEN 0 ELSE Div(Len(intersection), Len(union))

jaccardSimilarity(sig1, sig2) ==
    LET set1 == NewSet(sig1)
        set2 == NewSet(sig2)
        InSet2(x) == Has(set2, x)
        intersection == NewSet(SelectSeq(set1, InSet2))
        union == NewSet(set1 \o set2)
    IN IF Len(union) = 0 THEN 0 ELSE Div(Len(intersection), Len(union))

\* resonanceScore without the alignment term
resonanceScore_JaccardOnly(query, pattern, alpha, beta) ==
    Mul(alpha, jaccardSimilarity(query.primeSignature, pattern.primeSignature))

resonanceScore(query, pattern, alpha, beta) ==
    LET jaccard == jaccardSimilarity(query.primeSignature, pattern.primeSignature)
        semanticAlignment == Abs(dot(query.quaternion, pattern.quaternion))
    IN Mul(alpha, jaccard) + Mul(beta, semanticAlignment)

\* entanglementStrength dividing the overlap by the two sizes added up
entanglementStrength_SumSize(memA, memB) ==
    LET sigA == NewSet(memA.primeSignature)
        sigB == NewSet(memB.primeSignature)
        InSigB(x) == Has(sigB, x)
        intersection == NewSet(SelectSeq(sigA, InSigB))
        maxSize == Len(sigA) + Len(sigB)
        primeOverlap == IF maxSize = 0 THEN 0 ELSE Div(Len(intersection), maxSize)
        quatDot == Abs(dot(memA.quaternion, memB.quaternion))
    IN Mul(Half, primeOverlap + quatDot)

\* entanglementStrength dividing the overlap by the size of the first signature
entanglementStrength_SizeOfA(memA, memB) ==
    LET sigA == NewSet(memA.primeSignature)
        sigB == NewSet(memB.primeSignature)
        InSigB(x) == Has(sigB, x)
        intersection == NewSet(SelectSeq(sigA, InSigB))
        maxSize == Len(sigA)
        primeOverlap == IF maxSize = 0 THEN 0 ELSE Div(Len(intersection), maxSize)
        quatDot == Abs(dot(memA.quaternion, memB.quaternion))
    IN Mul(Half, primeOverlap + quatDot)

\* entanglementStrength without Math.abs around the dot product
entanglementStrength_SignedDot(memA, memB) ==
    LET sigA == NewSet(memA.primeSignature)
        sigB == NewSet(memB.primeSignature)
        InSigB(x) == Has(sigB, x)
        intersection == NewSet(SelectSeq(sigA, InSigB))
        maxSize == Max(Len(sigA), Len(sigB))
        primeOverlap == IF maxSize = 0 THEN 0 ELSE Div(Len(intersection), maxSize)
        quatDot == dot(memA.quaternion, memB.quaternion)
    IN (Half * (primeOverlap + quatDot)) \div Scale

entanglementStrength(memA, memB) ==
    LET sigA == NewSet(memA.primeSignature)
        sigB == NewSet(memB.primeSignature)
        InSigB(x) == Has(sigB, x)
        intersection == NewSet(SelectSeq(sigA, InSigB))
        maxSize == Max(Len(sigA), Len(sigB))
        primeOverlap == IF maxSize = 0 THEN 0 ELSE Div(Len(intersection), maxSize)
        quatDot == Abs(dot(memA.quaternion, memB.quaternion))
    IN Mul(Half, primeOverlap + quatDot)

\* ----------------------------------------------------------- field metrics
\* ln(n / d) for d <= n < 2d, in units of 1/100000, from the series
\* 2 (z + z^3/3 + z^5/5 + z^7/7 + z^9/9) with z = (n - d) / (n + d)
LnMantissa(n, d) ==
    LET z == ((n - d) * 100000) \div (n + d)
        z2 == (z * z) \div 100000
        z3 == (z * z2) \div 100000
        z5 == (z3 * z2) \div 100000
        z7 == (z5 * z2) \div 100000
        z9 == (z7 * z2) \div 100000
    IN 2 * (z + z3 \div 3 + z5 \div 5 + z7 \div 7 + z9 \div 9)

RECURSIVE Log2(_, _)
\* Math.log2(n / d) for integers n, d > 0, as a signed score
Log2(n, d) ==
    IF n >= 2 * d THEN Scale + Log2(n, 2 * d)
    ELSE IF n < d THEN Log2(2 * n, d) - Scale
    ELSE RoundDiv(LnMantissa(n, d) * Scale, 69315)

\* Math.log(x) for a score x > 0, as a signed score: log2(x) * ln 2
Ln(x) ==
    LET l == Log2(x, Scale)
    IN Sign(l) * RoundDiv(Abs(l) * 69315, 100000)

\* the number of entries equal to x in the array s
Count(s, x) == Cardinality({i \in 1..Len(s) : s[i] = x})

\* the phase of a memory: Math.acos of the w of its quaternion, clamped to
\* [-1, 1]
Phase(mem) ==
    Acos(RoundDiv(Max(-One, Min(One, dot(mem.quaternion, Identity))) * TrigScale,
                  Scale))

\* calculateCoherence returning 0 for the empty collection
calculateCoherence_ZeroWhenEmpty(mems) ==
    IF Len(mems) = 0 THEN 0
    ELSE LET sumCos == Sum([k \in 1..Len(mems) |-> Cos(Phase(mems[k]))])
             sumSin == Sum([k \in 1..Len(mems) |-> Sin(Phase(mems[k]))])
         IN (Sqrt(sumCos * sumCos + sumSin * sumSin) * (Scale \div TrigScale))
               \div Len(mems)

\* calculateEntropy: the entropy of the frequencies of the primes of all the
\* signatures, divided by the entropy log2(number of distinct primes) of the
\* uniform distribution; 0 for no memory, no prime, or one distinct prime
calculateEntropy(mems) ==
    IF Len(mems) = 0 THEN 0
    ELSE LET all == Flatten([k \in 1..Len(mems) |-> mems[k].primeSignature])
             primeFreq == NewSet(all)
             total == Len(all)
         IN IF total = 0 THEN 0
            ELSE LET term(prime) ==
                         Mul(Div(Count(all, prime), total),
                             -Log2(Count(all, prime), total))
                     entropy == Sum([n \in 1..Len(primeFreq) |-> term(primeFreq[n])])
                     maxEntropy == Log2(Max(Len(primeFreq), 1), 1)
                 IN IF maxEntropy = 0 THEN 0 ELSE Div(entropy, maxEntropy)

\* calculateCoherence: the length of the mean of (cos phase, sin phase) over
\* the memories, with phase = acos(w clamped to [-1, 1]); 1 for no memory
calculateCoherence(mems) ==
    IF Len(mems) = 0 THEN One
    ELSE LET sumCos == Sum([k \in 1..Len(mems) |-> Cos(Phase(mems[k]))])
             sumSin == Sum([k \in 1..Len(mems) |-> Sin(Phase(mems[k]))])
         IN (Sqrt(sumCos * sumCos + sumSin * sumSin) * (Scale \div TrigScale))
               \div Len(mems)

\* the components of the unit quaternion q, as signed scores
Components(q) ==
    [w |-> dot(q, Identity),
     x |-> dot(q, createQuaternion(0, 1, 0, 0)),
     y |-> dot(q, createQuaternion(0, 0, 1, 0)),
     z |-> dot(q, createQuaternion(0, 0, 0, 1))]

\* magnitude of the difference of two unit quaternions, as a score
Distance(q1, q2) ==
    LET a == Components(q1)
        b == Components(q2)
    IN Sqrt(magnitude2(createQuaternion(a.w - b.w, a.x - b.x, a.y - b.y, a.z - b.z)))

\* calculateLyapunov: the sum of log(d1) over the consecutive memories whose
\* distance d1 is above 0.001, divided by length - 1; 0 for fewer than two
calculateLyapunov(mems) ==
    IF Len(mems) < 2 THEN 0
    ELSE LET d1(k) == Distance(mems[k].quaternion, mems[k - 1].quaternion)
             divergenceSum ==
                 Sum([k \in 1..(Len(mems) - 1) |->
                         IF d1(k + 1) > 1 THEN Ln(d1(k + 1)) ELSE 0])
         IN Sign(divergenceSum) * (Abs(divergenceSum) \div (Len(mems) - 1))

\* ------------------------------------------------------------------- state
VARIABLES
    memories,           \* Index: the memory collection, newest first
    selectedMemory,     \* Index: the selected Memory, or Null
    activeQuaternion,   \* Index: the quaternion shown by the visualizer
    nextId,             \* the next value of crypto.randomUUID() and Date.now()
    encoderText,        \* MemoryEncoder: text, the text of the input
    preview,            \* MemoryEncoder: the encoding shown for it, or Null
    query,              \* MemoryDecoder: the text of the query input
    clusters,           \* MemoryDecoder: the clusters of the last search
    searchTime,         \* MemoryDecoder: Null, or Measured once a search ran
    clusterThreshold, maxResults, alphaWeight, betaWeight,
    enableClustering, minResonance,     \* MemoryDecoder: the search settings
    ranked,             \* the topResults of the last handleSearch
    searches,           \* the number of searches run so far
    call,               \* the library call under evaluation, and its result
    stressTest,         \* StressTest: isRunning, progress, results, abortRef,
                        \* and the frame of the run suspended at a yield
    slerpVisualizer     \* SlerpVisualizer: q1, q2, t and isPlaying

indexVars == <<memories, selectedMemory, activeQuaternion, nextId>>
encoderVars == <<encoderText, preview>>
settingVars == <<clusterThreshold, maxResults, alphaWeight, betaWeight,
                 enableClustering, minResonance>>
searchVars == <<clusters, searchTime, ranked, searches>>
stressVars == <<stressTest>>
slerpVars == <<slerpVisualizer>>
vars == <<indexVars, encoderVars, query, settingVars, searchVars, call,
          stressVars, slerpVars>>

Null == [null |-> TRUE]
Idle == [fn |-> "idle"]
\* endTime - startTime of a search: a duration the model does not measure
Measured == [ms |-> "endTime - startTime"]

\* a slider position, in steps of 0.05
Step(k) == k * (Scale \div 20)

\* the texts typed into the encoder ("a", "Aa", "ba") and into the query
\* input (" ", "a", "Aa")
Contents == {<<97>>, <<65, 97>>, <<98, 97>>}
Queries == {<<Space>>, <<97>>, <<65, 97>>}
\* the positions the sliders are moved to
WeightSteps == {10}
ThresholdSteps == {17}
MinResonanceSteps == {0, 17}
\* the values of the Max Results input after an edit: "" (which is also the
\* value while the entry is no number), "0", "2", "150", "-3", "1.5", "0.5"
\* and "1e3"
MaxResultsEntries ==
    {<<>>, <<48>>, <<50>>, <<49, 53, 48>>, <<45, 51>>, <<49, 46, 53>>,
     <<48, 46, 53>>, <<49, 101, 51>>}

\* StressTest before its first run: no frame of runBenchmark is suspended
StressTestInitial ==
    [isRunning |-> FALSE, progress |-> 0, results |-> <<>>, abortRef |-> FALSE,
     run |-> Null]

\* SlerpVisualizer as mounted; the literals 0.707 stand for the directions
\* (1,1,0,0) and (1,0,1,0)
SlerpVisualizerInitial ==
    [q1 |-> createQuaternion(1, 1, 0, 0), q2 |-> createQuaternion(1, 0, 1, 0),
     t |-> 0, isPlaying |-> FALSE]

Init ==
    /\ stressTest = StressTestInitial
    /\ slerpVisualizer = SlerpVisualizerInitial
    /\ memories = <<>>
    /\ selectedMemory = Null
    /\ activeQuaternion = Identity
    /\ nextId = 1
    /\ encoderText = <<>>
    /\ preview = Null
    /\ query = <<>>
    /\ clusters = <<>>
    /\ searchTime = Null
    /\ clusterThreshold = Step(6)
    /\ maxResults = 20
    /\ alphaWeight = Step(12)
    /\ betaWeight = Step(8)
    /\ enableClustering = TRUE
    /\ minResonance = 0
    /\ ranked = <<>>
    /\ searches = 0
    /\ call = Idle

\* ------------------------------------------------------------------- Index
\* the Memory built by Index.handleEncode
NewMemory(id, content, quaternion, primeSignature, timestamp) ==
    [id |-> id, content |-> content, quaternion |-> quaternion,
     primeSignature |-> primeSignature, timestamp |-> timestamp]

\* Index.handleEncode, which MemoryEncoder calls as onEncode
onEncode(content, quaternion, primeSignature) ==
    LET newMemory == NewMemory(nextId, content, quaternion, primeSignature, nextId)
    IN /\ memories' = <<newMemory>> \o memories
       /\ activeQuaternion' = quaternion
       /\ selectedMemory' = newMemory
       /\ nextId' = nextId + 1

\* the memories whose id is not `id`
WithoutId(mems, id) ==
    LET Other(m) == m.id # id
    IN SelectSeq(mems, Other)

handleSelectMemory(memory) ==
    /\ selectedMemory' = memory
    /\ activeQuaternion' = memory.quaternion
    /\ UNCHANGED <<memories, nextId, encoderVars, query, settingVars, searchVars, call, stressVars, slerpVars>>

\* a delete that clears the selection and leaves the visualizer as it is
handleDeleteMemory_KeepsQuaternion(id) ==
    /\ memories' = WithoutId(memories, id)
    /\ selectedMemory' = IF selectedMemory # Null /\ selectedMemory.id = id
                         THEN Null ELSE selectedMemory
    /\ UNCHANGED <<activeQuaternion, nextId, encoderVars, query, settingVars,
                   searchVars, call, stressVars, slerpVars>>

handleDeleteMemory(id) ==
    /\ memories' = WithoutId(memories, id)
    /\ IF selectedMemory # Null /\ selectedMemory.id = id
       THEN /\ selectedMemory' = Null
            /\ activeQuaternion' = Identity
       ELSE UNCHANGED <<selectedMemory, activeQuaternion>>
    /\ UNCHANGED <<nextId, encoderVars, query, settingVars, searchVars, call, stressVars, slerpVars>>

handleClearMemories ==
    /\ memories' = <<>>
    /\ selectedMemory' = Null
    /\ activeQuaternion' = Identity
    /\ UNCHANGED <<nextId, encoderVars, query, settingVars, searchVars, call, stressVars, slerpVars>>

handleMemoriesGenerated(newMemories) ==
    /\ memories' = newMemories
    /\ IF Len(newMemories) > 0
       THEN /\ selectedMemory' = newMemories[1]
            /\ activeQuaternion' = newMemories[1].quaternion
       ELSE UNCHANGED <<selectedMemory, activeQuaternion>>

\* -------------------------------------------------------------- StressTest
\* array.join(separator) on an array of strings
RECURSIVE join(_, _)
join(array, separator) ==
    IF array = <<>> THEN <<>>
    ELSE IF Len(array) = 1 THEN array[1]
    ELSE array[1] \o separator \o join(Tail(array), separator)

\* generateRandomMemory when the random words are `words`, the UUID is `id`
\* and the clock reads `timestamp`
generateRandomMemory(words, id, timestamp) ==
    LET content == join(words, <<Space>>)
        encoded == encodeText(content)
    IN [id |-> id, primeSignature |-> encoded.primeSignature,
        quaternion |-> encoded.quaternion, content |-> content,
        timestamp |-> timestamp]

\* the word lists drawn: "eta eta eta" and "eta iota eta eta"
WordLists == {<<<<101, 116, 97>>, <<101, 116, 97>>, <<101, 116, 97>>>>,
              <<<<101, 116, 97>>, <<105, 111, 116, 97>>, <<101, 116, 97>>,
                <<101, 116, 97>>>>}

\* the operations of the four benchmarks, in the order they are pushed
Operations == <<"Memory Generation", "Hamilton Products", "Resonance Scores",
                "Entanglement Detection">>

\* a run of the benchmark to its end with Stop never pressed, the words of
\* each generated memory being draws[k]: the results are published and the
\* batch is handed to Index.handleMemoriesGenerated
runBenchmark(draws) ==
    /\ ~stressTest.isRunning
    /\ nextId + Len(draws) - 1 <= MaxIds
    /\ handleMemoriesGenerated(
           [k \in 1..Len(draws) |->
               generateRandomMemory(draws[k], nextId + k - 1, nextId + k - 1)])
    /\ nextId' = nextId + Len(draws)
    /\ stressTest' = [isRunning |-> FALSE, progress |-> 100, results |-> Operations,
                      abortRef |-> FALSE, run |-> Null]
    /\ UNCHANGED <<encoderVars, query, settingVars, searchVars, call, slerpVars>>

\* The same run, yield by yield.  The frame of a suspended run holds the loop
\* it is in (1 to 4, an index of Operations), that loop's count and i, the
\* memories generated and the number of benchmarks pushed.  The counts of the
\* model are at most 20, so that Math.ceil(count / 20) is 1 and every
\* iteration of a loop ends in a yield.
Frame(loop, count, i, mems) ==
    [loop |-> loop, count |-> count, i |-> i, memories |-> mems,
     benchmarks |-> loop - 1]

\* hamiltonCount, resonanceCount and entanglementCount
LoopCount(loop, length) ==
    IF loop = 2 THEN Min(length * 10, 10000)
    ELSE IF loop = 3 THEN Min(length * 5, 5000)
    ELSE Min(length * 3, 3000)

\* the value handed to setProgress in a loop, rounded down to a whole percent
LoopProgress(loop, i, count) == (loop - 1) * 25 + (i * 25) \div count

\* the memoryCount values of the model
MemoryCounts == {1, 2}

\* a click on Run Stress Test with the slider at memoryCount: the run up to
\* its first yield, in the first iteration of the generation loop
runBenchmark_Start(memoryCount, words) ==
    /\ ~stressTest.isRunning
    /\ nextId + memoryCount - 1 <= MaxIds
    /\ stressTest' =
           [isRunning |-> TRUE, progress |-> LoopProgress(1, 0, memoryCount),
            results |-> <<>>, abortRef |-> FALSE,
            run |-> Frame(1, memoryCount, 0,
                          <<generateRandomMemory(words, nextId, nextId)>>)]
    /\ nextId' = nextId + 1
    /\ UNCHANGED <<memories, selectedMemory, activeQuaternion, encoderVars, query,
                   settingVars, searchVars, call, slerpVars>>

\* a click on Stop, which is on screen while isRunning
stopBenchmark ==
    /\ stressTest.isRunning
    /\ stressTest' = [stressTest EXCEPT !.abortRef = TRUE]
    /\ UNCHANGED <<indexVars, encoderVars, query, settingVars, searchVars, call,
                   slerpVars>>

\* the run resumed after a yield takes the next iteration of its loop
Iterates(frame, abortRef) == frame.i + 1 < frame.count /\ ~abortRef

\* one more iteration of the loop the run is in, up to its yield; in the
\* generation loop it pushes a memory made of `words`
runBenchmark_Iterate(words) ==
    LET frame == stressTest.run
        generated == IF frame.loop = 1
                     THEN Append(frame.memories,
                                 generateRandomMemory(words, nextId, nextId))
                     ELSE frame.memories
    IN /\ stressTest.isRunning
       /\ Iterates(frame, stressTest.abortRef)
       /\ stressTest' =
              [stressTest EXCEPT
                 !.progress = LoopProgress(frame.loop, frame.i + 1, frame.count),
                 !.run = Frame(frame.loop, frame.count, frame.i + 1, generated)]
       /\ nextId' = IF frame.loop = 1 THEN nextId + 1 ELSE nextId
       /\ UNCHANGED <<memories, selectedMemory, activeQuaternion, encoderVars,
                      query, settingVars, searchVars, call, slerpVars>>

\* the run resumed after a yield leaves one of the first three loops, by its
\* bound or by break: after benchmarks.push, a set abortRef ends the run,
\* otherwise the next loop runs up to its first yield
runBenchmark_NextLoop ==
    LET frame == stressTest.run
        count == LoopCount(frame.loop + 1, Len(frame.memories))
    IN /\ stressTest.isRunning
       /\ ~Iterates(frame, stressTest.abortRef)
       /\ frame.loop < 4
       /\ stressTest' =
              IF stressTest.abortRef
              THEN [stressTest EXCEPT !.isRunning = FALSE, !.run = Null]
              ELSE [stressTest EXCEPT
                      !.progress = LoopProgress(frame.loop + 1, 0, count),
                      !.run = Frame(frame.loop + 1, count, 0, frame.memories)]
       /\ UNCHANGED <<indexVars, encoderVars, query, settingVars, searchVars, call,
                      slerpVars>>

\* the run resumed after a yield leaves the entanglement loop, by its bound
\* or by break: the results are published and the memories handed to
\* onMemoriesGenerated, which is Index.handleMemoriesGenerated
runBenchmark_Finish ==
    LET frame == stressTest.run
    IN /\ stressTest.isRunning
       /\ ~Iterates(frame, stressTest.abortRef)
       /\ frame.loop = 4
       /\ stressTest' =
              [stressTest EXCEPT !.progress = 100, !.results = Operations,
                                 !.isRunning = FALSE, !.run = Null]
       /\ handleMemoriesGenerated(frame.memories)
       /\ UNCHANGED <<nextId, encoderVars, query, settingVars, searchVars, call,
                      slerpVars>>

\* the stress test on its own, with the Clear button of the memory list
NextStress ==
    \/ \E memoryCount \in MemoryCounts : \E words \in WordLists :
          runBenchmark_Start(memoryCount, words)
    \/ \E words \in WordLists : runBenchmark_Iterate(words)
    \/ runBenchmark_NextLoop
    \/ runBenchmark_Finish
    \/ stopBenchmark
    \/ handleClearMemories

SpecStress == Init /\ [][NextStress]_vars

\* ----------------------------------------------------------- MemoryEncoder
\* a preview that is kept while a new text is typed
handleTextChange_KeepPreview(value) ==
    /\ encoderText' = value
    /\ preview' = IF trim(value) = <<>> THEN Null
                  ELSE IF preview = Null THEN encodeText(value)
                  ELSE preview
    /\ UNCHANGED <<indexVars, query, settingVars, searchVars, call, stressVars, slerpVars>>

handleTextChange(value) ==
    /\ encoderText' = value
    /\ preview' = IF trim(value) # <<>> THEN encodeText(value) ELSE Null
    /\ UNCHANGED <<indexVars, query, settingVars, searchVars, call, stressVars, slerpVars>>

\* MemoryEncoder.handleEncode, the click on the Encode button
handleEncode ==
    /\ trim(encoderText) # <<>>
    /\ preview # Null
    /\ Len(memories) < MaxMem
    /\ nextId <= MaxIds
    /\ onEncode(encoderText, preview.quaternion, preview.primeSignature)
    /\ encoderText' = <<>>
    /\ preview' = Null
    /\ UNCHANGED <<query, settingVars, searchVars, call, stressVars, slerpVars>>

handleReset ==
    /\ encoderText' = <<>>
    /\ preview' = Null
    /\ UNCHANGED <<indexVars, query, settingVars, searchVars, call, stressVars, slerpVars>>

\* ----------------------------------------------------------- MemoryDecoder
setQuery(text) ==
    /\ query' = text
    /\ UNCHANGED <<indexVars, encoderVars, settingVars, searchVars, call, stressVars, slerpVars>>

setAlphaWeight(v) ==
    /\ alphaWeight' = v
    /\ betaWeight' = One - v
    /\ UNCHANGED <<indexVars, encoderVars, query, clusterThreshold, maxResults,
                   enableClustering, minResonance, searchVars, call, stressVars, slerpVars>>

\* the beta slider setting betaWeight only
setBetaWeight_Alone(v) ==
    /\ betaWeight' = v
    /\ UNCHANGED <<indexVars, encoderVars, query, clusterThreshold, maxResults,
                   alphaWeight, enableClustering, minResonance, searchVars, call, stressVars, slerpVars>>

setBetaWeight(v) ==
    /\ betaWeight' = v
    /\ alphaWeight' = One - v
    /\ UNCHANGED <<indexVars, encoderVars, query, clusterThreshold, maxResults,
                   enableClustering, minResonance, searchVars, call, stressVars, slerpVars>>

setClusterThreshold(v) ==
    /\ enableClustering
    /\ clusterThreshold' = v
    /\ UNCHANGED <<indexVars, encoderVars, query, maxResults, alphaWeight, betaWeight,
                   enableClustering, minResonance, searchVars, call, stressVars, slerpVars>>

setMinResonance(v) ==
    /\ minResonance' = v
    /\ UNCHANGED <<indexVars, encoderVars, query, clusterThreshold, maxResults, alphaWeight,
                   betaWeight, enableClustering, searchVars, call, stressVars, slerpVars>>

\* the result of parseInt: NaN, or an integer
NaN == [NaN |-> TRUE]
Number(n) == [NaN |-> FALSE, n |-> n]

\* the decimal digits a text starts with
RECURSIVE LeadingDigits(_)
LeadingDigits(text) ==
    IF text = <<>> THEN <<>>
    ELSE IF Head(text) \in 48..57 THEN <<Head(text)>> \o LeadingDigits(Tail(text))
    ELSE <<>>

\* the number written by a sequence of decimal digits
RECURSIVE DigitsValue(_)
DigitsValue(digits) ==
    IF digits = <<>> THEN 0
    ELSE 10 * DigitsValue(SubSeq(digits, 1, Len(digits) - 1))
             + (digits[Len(digits)] - 48)

\* parseInt(string) in radix 10: leading spaces are skipped, a sign is read,
\* then the digits up to the first other code unit; without a digit the
\* result is NaN.  A value of a number input has no "0x" prefix.
parseInt(string) ==
    LET text == trim(string)
        signed == text # <<>> /\ Head(text) \in {43, 45}
        digits == LeadingDigits(IF signed THEN Tail(text) ELSE text)
    IN IF digits = <<>> THEN NaN
       ELSE IF signed /\ Head(text) = 45 THEN Number(0 - DigitsValue(digits))
       ELSE Number(DigitsValue(digits))

\* parseInt(entry) || 20 without the case of 0, which is falsy as NaN is
ParseIntOr20_ZeroIsANumber(entry) ==
    IF parseInt(entry).NaN THEN 20 ELSE parseInt(entry).n

\* parseInt(entry) || 20: NaN and 0 are falsy
ParseIntOr20(entry) ==
    IF parseInt(entry).NaN THEN 20
    ELSE IF parseInt(entry).n = 0 THEN 20
    ELSE parseInt(entry).n

setMaxResults(entry) ==
    /\ maxResults' = Max(1, Min(100, ParseIntOr20(entry)))
    /\ UNCHANGED <<indexVars, encoderVars, query, clusterThreshold, alphaWeight, betaWeight,
                   enableClustering, minResonance, searchVars, call, stressVars, slerpVars>>

setEnableClustering(checked) ==
    /\ enableClustering' = checked
    /\ UNCHANGED <<indexVars, encoderVars, query, clusterThreshold, maxResults, alphaWeight,
                   betaWeight, minResonance, searchVars, call, stressVars, slerpVars>>

\* a sort whose order of equal keys changes from one search to the next
RECURSIVE SortOrder_Unstable(_, _)
SortOrder_Unstable(keys, n) ==
    IF n = 0 THEN <<>>
    ELSE LET prev == SortOrder_Unstable(keys, n - 1)
             ahead == Cardinality({k \in 1..Len(prev) :
                          \/ keys[prev[k]] > keys[n]
                          \/ keys[prev[k]] = keys[n] /\ searches = 0})
         IN SubSeq(prev, 1, ahead) \o <<n>> \o SubSeq(prev, ahead + 1, Len(prev))

\* a sort that puts the lowest key first
RECURSIVE SortOrder_Ascending(_, _)
SortOrder_Ascending(keys, n) ==
    IF n = 0 THEN <<>>
    ELSE LET prev == SortOrder_Ascending(keys, n - 1)
             ahead == Cardinality({k \in 1..Len(prev) : keys[prev[k]] <= keys[n]})
         IN SubSeq(prev, 1, ahead) \o <<n>> \o SubSeq(prev, ahead + 1, Len(prev))

\* Array.prototype.sort with the comparator (a, b) => b.key - a.key, as the
\* order of the indices of `keys`: descending, and stable
RECURSIVE SortOrder(_, _)
SortOrder(keys, n) ==
    IF n = 0 THEN <<>>
    ELSE LET prev == SortOrder(keys, n - 1)
             ahead == Cardinality({k \in 1..Len(prev) : keys[prev[k]] >= keys[n]})
         IN SubSeq(prev, 1, ahead) \o <<n>> \o SubSeq(prev, ahead + 1, Len(prev))

\* the part of a Memory handed to the library
Pattern(memory) ==
    [quaternion |-> memory.quaternion, primeSignature |-> memory.primeSignature]

\* the SearchResult handleSearch maps a memory to
Scored(memory, queryEncoded, alpha, beta) ==
    [memory |-> memory,
     resonance |-> resonanceScore(queryEncoded, Pattern(memory), alpha, beta),
     similarity |-> jaccardSimilarity(queryEncoded.primeSignature,
                                      memory.primeSignature),
     quaternionAlignment |-> Abs(dot(normalize(queryEncoded.quaternion),
                                     normalize(memory.quaternion)))]

\* memories.map(memory => ({memory, resonance, similarity, quaternionAlignment}))
MapScored(mems, queryEncoded, alpha, beta) ==
    [k \in 1..Len(mems) |-> Scored(mems[k], queryEncoded, alpha, beta)]

\* if (minResonance > 0) searchResults.filter(r => r.resonance >= minResonance)
FilterByMinResonance(searchResults, minRes) ==
    LET Kept(r) == r.resonance >= minRes
    IN IF minRes > 0 THEN SelectSeq(searchResults, Kept) ELSE searchResults

\* the array in the order given by a sequence of its indices
Permuted(array, order) == [k \in 1..Len(order) |-> array[order[k]]]

\* searchResults.sort((a, b) => b.resonance - a.resonance)
SortByResonance(searchResults) ==
    Permuted(searchResults,
             SortOrder([k \in 1..Len(searchResults) |-> searchResults[k].resonance],
                       Len(searchResults)))

\* array.slice(0, end), for end >= 0
slice(array, end) == SubSeq(array, 1, Min(end, Len(array)))

\* a search that cuts the collection to maxResults before it filters and sorts
TopResults_SliceFirst(q, mems, alpha, beta, minRes, maxRes) ==
    SortByResonance(
        FilterByMinResonance(slice(MapScored(mems, encodeText(q), alpha, beta), maxRes),
                             minRes))

\* handleSearch up to topResults: map, filter, sort, slice
TopResults(q, mems, alpha, beta, minRes, maxRes) ==
    slice(SortByResonance(
              FilterByMinResonance(MapScored(mems, encodeText(q), alpha, beta), minRes)),
          maxRes)

\* the mean of the resonance of a non-empty list of results
AvgResonance(results) ==
    Sum([k \in 1..Len(results) |-> results[k].resonance]) \div Len(results)

WithClusterId(r, clusterId) ==
    [memory |-> r.memory, resonance |-> r.resonance, similarity |-> r.similarity,
     quaternionAlignment |-> r.quaternionAlignment, clusterId |-> clusterId]

\* an inner loop whose bound is exclusive
RECURSIVE Scan_Strict(_, _, _, _, _)
Scan_Strict(results, threshold, i, j, assigned) ==
    IF j > Len(results) THEN <<>>
    ELSE IF j \in assigned THEN Scan_Strict(results, threshold, i, j + 1, assigned)
    ELSE LET strength == entanglementStrength(Pattern(results[i].memory),
                                              Pattern(results[j].memory))
         IN IF strength > threshold
            THEN <<j>> \o Scan_Strict(results, threshold, i, j + 1, assigned \cup {j})
            ELSE Scan_Strict(results, threshold, i, j + 1, assigned)

\* an inner loop that takes the results already assigned as well
RECURSIVE Scan_IgnoresAssigned(_, _, _, _, _)
Scan_IgnoresAssigned(results, threshold, i, j, assigned) ==
    IF j > Len(results) THEN <<>>
    ELSE LET strength == entanglementStrength(Pattern(results[i].memory),
                                              Pattern(results[j].memory))
         IN IF strength >= threshold
            THEN <<j>> \o Scan_IgnoresAssigned(results, threshold, i, j + 1, assigned)
            ELSE Scan_IgnoresAssigned(results, threshold, i, j + 1, assigned)

\* the inner loop of clusterResults from j on: the indices that join the
\* cluster seeded by results[i]
RECURSIVE Scan(_, _, _, _, _)
Scan(results, threshold, i, j, assigned) ==
    IF j > Len(results) THEN <<>>
    ELSE IF j \in assigned THEN Scan(results, threshold, i, j + 1, assigned)
    ELSE LET strength == entanglementStrength(Pattern(results[i].memory),
                                              Pattern(results[j].memory))
         IN IF strength >= threshold
            THEN <<j>> \o Scan(results, threshold, i, j + 1, assigned \cup {j})
            ELSE Scan(results, threshold, i, j + 1, assigned)

\* a cluster that lists its members last to first
NewCluster_SeedLast(results, members, clusterId) ==
    LET cluster == [k \in 1..Len(members) |->
                       WithClusterId(results[members[Len(members) + 1 - k]], clusterId)]
    IN [id |-> clusterId, results |-> cluster, avgResonance |-> AvgResonance(cluster)]

\* the cluster pushed for the results at the indices `members`
NewCluster(results, members, clusterId) ==
    LET cluster == [k \in 1..Len(members) |->
                       WithClusterId(results[members[k]], clusterId)]
    IN [id |-> clusterId, results |-> cluster, avgResonance |-> AvgResonance(cluster)]

\* an outer loop that marks the seed as assigned and forgets the members that
\* joined it
RECURSIVE ClusterLoop_ForgetsMembers(_, _, _, _, _)
ClusterLoop_ForgetsMembers(results, threshold, i, assigned, clusterList) ==
    IF i > Len(results) THEN clusterList
    ELSE IF i \in assigned
    THEN ClusterLoop_ForgetsMembers(results, threshold, i + 1, assigned, clusterList)
    ELSE LET members == <<i>> \o Scan(results, threshold, i, i + 1, assigned \cup {i})
         IN ClusterLoop_ForgetsMembers(results, threshold, i + 1, assigned \cup {i},
                Append(clusterList, NewCluster(results, members, Len(clusterList))))

\* the outer loop of clusterResults from i on
RECURSIVE ClusterLoop(_, _, _, _, _)
ClusterLoop(results, threshold, i, assigned, clusterList) ==
    IF i > Len(results) THEN clusterList
    ELSE IF i \in assigned
    THEN ClusterLoop(results, threshold, i + 1, assigned, clusterList)
    ELSE LET members == <<i>> \o Scan(results, threshold, i, i + 1, assigned \cup {i})
         IN ClusterLoop(results, threshold, i + 1, assigned \cup Range(members),
                Append(clusterList, NewCluster(results, members, Len(clusterList))))

\* the clusters left in the order they were created in
SortByAvgResonance_CreationOrder(clusterList) == clusterList

\* clusterList.sort((a, b) => b.avgResonance - a.avgResonance)
SortByAvgResonance(clusterList) ==
    Permuted(clusterList,
             SortOrder([k \in 1..Len(clusterList) |-> clusterList[k].avgResonance],
                       Len(clusterList)))

clusterResults(results, threshold) ==
    IF Len(results) = 0 THEN <<>>
    ELSE SortByAvgResonance(ClusterLoop(results, threshold, 1, {}, <<>>))

\* the inner loop of the clustering written in the test suite, from the j-th
\* memory of the whole list on: the contents that join the cluster of mem
RECURSIVE TestScan(_, _, _, _, _)
TestScan(knownMemories, threshold, mem, j, assigned) ==
    IF j > Len(knownMemories) THEN <<>>
    ELSE IF knownMemories[j].id \in assigned
    THEN TestScan(knownMemories, threshold, mem, j + 1, assigned)
    ELSE LET other == knownMemories[j]
             strength == entanglementStrength(Pattern(mem), Pattern(other))
         IN IF strength >= threshold
            THEN <<other>> \o TestScan(knownMemories, threshold, mem, j + 1,
                                        assigned \cup {other.id})
            ELSE TestScan(knownMemories, threshold, mem, j + 1, assigned)

\* the outer loop of the clustering written in the test suite, from the i-th
\* memory on: the clusters, each the contents of its memories
RECURSIVE TestClusterLoop(_, _, _, _, _)
TestClusterLoop(knownMemories, threshold, i, assigned, testClusters) ==
    IF i > Len(knownMemories) THEN testClusters
    ELSE IF knownMemories[i].id \in assigned
    THEN TestClusterLoop(knownMemories, threshold, i + 1, assigned, testClusters)
    ELSE LET mem == knownMemories[i]
             joined == TestScan(knownMemories, threshold, mem, 1, assigned \cup {mem.id})
             cluster == <<mem.content>> \o [k \in 1..Len(joined) |-> joined[k].content]
         IN TestClusterLoop(knownMemories, threshold, i + 1,
                assigned \cup {mem.id} \cup {joined[k].id : k \in 1..Len(joined)},
                Append(testClusters, cluster))

\* a search that clusters whatever the switch says
Clustered_Always(topResults, clustering, threshold) ==
    clusterResults(topResults, threshold)

\* what handleSearch hands to setClusters
Clustered(topResults, clustering, threshold) ==
    IF clustering
    THEN clusterResults(topResults, threshold)
    ELSE << [id |-> 0,
             results |-> topResults,
             avgResonance |-> IF Len(topResults) = 0 THEN 0
                              ELSE AvgResonance(topResults)] >>

\* a search that sorts the collection it was given, in place, by resonance
handleSearch_SortsCollection ==
    /\ trim(query) # <<>>
    /\ Len(memories) # 0
    /\ searches < MaxSearches
    /\ searches' = searches + 1
    /\ ranked' = TopResults(query, memories, alphaWeight, betaWeight,
                            minResonance, maxResults)
    /\ clusters' = Clustered(ranked', enableClustering, clusterThreshold)
    /\ searchTime' = Measured
    /\ memories' =
          LET scored == MapScored(memories, encodeText(query), alphaWeight, betaWeight)
              sorted == SortByResonance(scored)
          IN [k \in 1..Len(sorted) |-> sorted[k].memory]
    /\ UNCHANGED <<selectedMemory, activeQuaternion, nextId, encoderVars, query,
                   settingVars, call, stressVars, slerpVars>>

handleSearch ==
    /\ trim(query) # <<>>
    /\ Len(memories) # 0
    /\ searches < MaxSearches
    /\ searches' = searches + 1
    /\ ranked' = TopResults(query, memories, alphaWeight, betaWeight,
                            minResonance, maxResults)
    /\ clusters' = Clustered(ranked', enableClustering, clusterThreshold)
    /\ searchTime' = Measured
    /\ UNCHANGED <<indexVars, encoderVars, query, settingVars, call, stressVars, slerpVars>>

\* the events of the Index page, its memory list, its encoder and its
\* stress test
NextIndex ==
    \/ \E value \in Contents \cup {<<Space>>} : handleTextChange(value)
    \/ handleEncode
    \/ handleReset
    \/ \E k \in 1..Len(memories) : handleSelectMemory(memories[k])
    \/ \E k \in 1..Len(memories) : handleDeleteMemory(memories[k].id)
    \/ handleClearMemories
    \/ \E draws \in UNION {[1..n -> WordLists] : n \in 1..MaxMem} : runBenchmark(draws)

SpecIndex == Init /\ [][NextIndex]_vars

Next ==
    \/ NextIndex
    \/ \E text \in Queries : setQuery(text)
    \/ \E k \in WeightSteps : setAlphaWeight(Step(k))
    \/ \E k \in WeightSteps : setBetaWeight(Step(k))
    \/ \E k \in ThresholdSteps : setClusterThreshold(Step(k))
    \/ \E k \in MinResonanceSteps : setMinResonance(Step(k))
    \/ \E entry \in MaxResultsEntries : setMaxResults(entry)
    \/ \E checked \in BOOLEAN : setEnableClustering(checked)
    \/ handleSearch
    \/ \E n \in 1..Len(clusters) : \E r \in 1..Len(clusters[n].results) :
          handleSelectMemory(clusters[n].results[r].memory)

Spec == Init /\ [][Next]_vars

\* -------------------------------------------- the collection and the decoder
\* The Index page with the memory list and the decoder on screen, the search
\* settings left as they start: the events of the Index page, the query
\* typed, the search run, and a click on a result the decoder shows, which
\* is onSelectMemory(result.memory).  The decoder keeps its query and its
\* results while the encoder and the stress test are used; the behaviours in
\* which the Decode tab is never left are among these.
AppQueries == {<<97>>}
\* the texts encoded: "a" and "ba"
AppContents == {<<97>>, <<98, 97>>}

NextApp ==
    \/ \E value \in AppContents : handleTextChange(value)
    \/ handleEncode
    \/ \E k \in 1..Len(memories) : handleSelectMemory(memories[k])
    \/ \E k \in 1..Len(memories) : handleDeleteMemory(memories[k].id)
    \/ handleClearMemories
    \/ \E draws \in [1..2 -> WordLists] : runBenchmark(draws)
    \/ \E text \in AppQueries : setQuery(text)
    \/ handleSearch
    \/ \E n \in 1..Len(clusters) : \E r \in 1..Len(clusters[n].results) :
          handleSelectMemory(clusters[n].results[r].memory)

SpecApp == Init /\ [][NextApp]_vars

\* ------------------------------------------------------ the search settings
\* The settings panel of MemoryDecoder on its own: every position of the two
\* weight sliders, the ends and the initial position of the other sliders.
AllWeightSteps == 0..20
SomeThresholdSteps == {2, 6, 18}
SomeMinResonanceSteps == {0, 18}

NextSettings ==
    \/ \E k \in AllWeightSteps : setAlphaWeight(Step(k))
    \/ \E k \in AllWeightSteps : setBetaWeight(Step(k))
    \/ \E k \in SomeThresholdSteps : setClusterThreshold(Step(k))
    \/ \E k \in SomeMinResonanceSteps : setMinResonance(Step(k))
    \/ \E entry \in MaxResultsEntries : setMaxResults(entry)
    \/ \E checked \in BOOLEAN : setEnableClustering(checked)

SpecSettings == Init /\ [][NextSettings]_vars

\* ------------------------------------------------------- search, in isolation
\* The search as a function of what it reads: the collection is any that
\* handleEncode builds from Contents or from SearchContents, the query and the
\* settings are any the inputs and sliders can be left at, and the one step is
\* handleSearch.
SearchWeightSteps == {0, 10, 12, 20}
SearchThresholdSteps == {6, 14, 15}
SearchMinResonanceSteps == {0, 10, 15}
SearchMaxResults == {1, 2, 20}
\* the contents of a second family of collections: "az", "Aa", "bz"
SearchContents == {<<97, 122>>, <<65, 97>>, <<98, 122>>}

\* the collection after handleEncode(texts[1]), ..., handleEncode(texts[n])
RECURSIVE Encoded(_)
Encoded(texts) ==
    IF texts = <<>> THEN <<>>
    ELSE LET n == Len(texts)
             encoded == encodeText(texts[n])
         IN <<NewMemory(n, texts[n], encoded.quaternion, encoded.primeSignature, n)>>
                \o Encoded(SubSeq(texts, 1, n - 1))

InitSearch ==
    /\ stressTest = StressTestInitial
    /\ slerpVisualizer = SlerpVisualizerInitial
    /\ \E texts \in SeqsUpTo(Contents, MaxMem) \cup SeqsUpTo(SearchContents, MaxMem) :
          /\ memories = Encoded(texts)
          /\ nextId = Len(texts) + 1
          /\ selectedMemory = IF texts = <<>> THEN Null ELSE Encoded(texts)[1]
          /\ activeQuaternion = IF texts = <<>> THEN Identity
                                ELSE Encoded(texts)[1].quaternion
    /\ encoderText = <<>>
    /\ preview = Null
    /\ query \in Queries \cup {<<>>}
    /\ clusters = <<>>
    /\ searchTime = Null
    /\ ranked = <<>>
    /\ searches = 0
    /\ clusterThreshold \in {Step(k) : k \in SearchThresholdSteps}
    /\ maxResults \in SearchMaxResults
    /\ alphaWeight \in {Step(k) : k \in SearchWeightSteps}
    /\ betaWeight = One - alphaWeight
    /\ enableClustering \in BOOLEAN
    /\ minResonance \in {Step(k) : k \in SearchMinResonanceSteps}
    /\ call = Idle

NextSearch == handleSearch

SpecSearch == InitSearch /\ [][NextSearch]_vars

\* ------------------------------------------------- the library, call by call
\* One call of a library function on arguments drawn from bounded sets; the
\* call and what it returned are kept in `call`.
SigPrimes == {2, 3, 5}
\* the arrays handed to jaccardSimilarity, repeated values included
Signatures == SeqsUpTo(SigPrimes, MaxSigLen)
\* unit quaternions: 1, -1, i, and (1 + i + j + k)/2
UnitQuaternions ==
    {Identity, createQuaternion(-1, 0, 0, 0), createQuaternion(0, 1, 0, 0),
     createQuaternion(1, 1, 1, 1)}
\* the records handed to entanglementStrength
Records == [quaternion : UnitQuaternions, primeSignature : SeqsUpTo({2, 3}, MaxSigLen)]
\* the texts a query is scored against, besides itself: "", "a", "ba"
PatternTexts == {<<>>, <<97>>, <<98, 97>>}
\* the weights a caller passes: the defaults, 0.6 / 0.4, and the two ends of
\* the alpha slider, 0 / 1 and 1 / 0
Weights == {<<Half, Half>>, <<Step(12), Step(8)>>, <<0, One>>, <<One, 0>>}

callEncodeText(text) ==
    /\ call = Idle
    /\ call' = [fn |-> "encodeText", text |-> text, ret |-> encodeText(text)]
    /\ UNCHANGED <<indexVars, encoderVars, query, settingVars, searchVars, stressVars, slerpVars>>

callJaccardSimilarity(sig1, sig2) ==
    /\ call = Idle
    /\ call' = [fn |-> "jaccardSimilarity", sig1 |-> sig1, sig2 |-> sig2,
                ret |-> jaccardSimilarity(sig1, sig2)]
    /\ UNCHANGED <<indexVars, encoderVars, query, settingVars, searchVars, stressVars, slerpVars>>

\* resonanceScore(encodeText(queryText), encodeText(patternText), alpha, beta)
callResonanceScore(queryText, patternText, alpha, beta) ==
    /\ call = Idle
    /\ call' = [fn |-> "resonanceScore",
                queryText |-> queryText, patternText |-> patternText,
                alpha |-> alpha, beta |-> beta,
                ret |-> resonanceScore(encodeText(queryText),
                                       encodeText(patternText), alpha, beta)]
    /\ UNCHANGED <<indexVars, encoderVars, query, settingVars, searchVars, stressVars, slerpVars>>

callEntanglementStrength(memA, memB) ==
    /\ call = Idle
    /\ call' = [fn |-> "entanglementStrength", memA |-> memA, memB |-> memB,
                ret |-> entanglementStrength(memA, memB)]
    /\ UNCHANGED <<indexVars, encoderVars, query, settingVars, searchVars, stressVars, slerpVars>>

\* the imaginary units i, j, k, and -1
UnitI == createQuaternion(0, 1, 0, 0)
UnitJ == createQuaternion(0, 0, 1, 0)
UnitK == createQuaternion(0, 0, 0, 1)
MinusOne == createQuaternion(-1, 0, 0, 0)
\* the unit quaternions multiplied: 1, -1, i, j, k, and the normalized
\* (1,1,1,1), (1,2,3,4) and (5,6,7,8)
Factors ==
    UnitQuaternions \cup {UnitJ, UnitK, createQuaternion(1, 2, 3, 4),
                          createQuaternion(5, 6, 7, 8)}

callHamiltonProduct(q1, q2) ==
    /\ call = Idle
    /\ call' = [fn |-> "hamiltonProduct", q1 |-> q1, q2 |-> q2,
                ret |-> hamiltonProduct(q1, q2)]
    /\ UNCHANGED <<indexVars, encoderVars, query, settingVars, searchVars, stressVars, slerpVars>>

\* the unit quaternions interpolated: 1, -1, i, and the normalized (1,1,0,0),
\* (-1,1,0,0) and (1,1,1,1)
Rotations ==
    UnitQuaternions \cup {createQuaternion(1, 1, 0, 0), createQuaternion(-1, 1, 0, 0)}
\* the values of t: 0, 0.25, 0.5 and 1
SlerpTimes == {0, Step(5), Half, One}

callSlerp(q1, q2, t) ==
    /\ call = Idle
    /\ call' = [fn |-> "slerp", q1 |-> q1, q2 |-> q2, t |-> t,
                ret |-> slerp(q1, q2, t)]
    /\ UNCHANGED <<indexVars, encoderVars, query, settingVars, searchVars, stressVars, slerpVars>>

\* the memories the metrics are computed over, as far as the metrics read
\* them: 1, i, -1 and the normalized (1,1,0,0), with signatures of 0 to 2 primes
MetricMemories ==
    {[quaternion |-> Identity, primeSignature |-> <<>>],
     [quaternion |-> createQuaternion(0, 1, 0, 0), primeSignature |-> <<2>>],
     [quaternion |-> createQuaternion(-1, 0, 0, 0), primeSignature |-> <<2, 3>>],
     [quaternion |-> createQuaternion(1, 1, 0, 0), primeSignature |-> <<3>>]}
MetricCollections == SeqsUpTo(MetricMemories, MaxMem)

callCalculateEntropy(mems) ==
    /\ call = Idle
    /\ call' = [fn |-> "calculateEntropy", memories |-> mems,
                ret |-> calculateEntropy(mems)]
    /\ UNCHANGED <<indexVars, encoderVars, query, settingVars, searchVars, stressVars, slerpVars>>

callCalculateCoherence(mems) ==
    /\ call = Idle
    /\ call' = [fn |-> "calculateCoherence", memories |-> mems,
                ret |-> calculateCoherence(mems)]
    /\ UNCHANGED <<indexVars, encoderVars, query, settingVars, searchVars, stressVars, slerpVars>>

callCalculateLyapunov(mems) ==
    /\ call = Idle
    /\ call' = [fn |-> "calculateLyapunov", memories |-> mems,
                ret |-> calculateLyapunov(mems)]
    /\ UNCHANGED <<indexVars, encoderVars, query, settingVars, searchVars, stressVars, slerpVars>>

NextFn ==
    \/ \E text \in Texts : callEncodeText(text)
    \/ \E sig1 \in Signatures, sig2 \in Signatures : callJaccardSimilarity(sig1, sig2)
    \/ \E queryText \in Texts, patternText \in PatternTexts, wt \in Weights :
          callResonanceScore(queryText, patternText, wt[1], wt[2])
    \/ \E text \in Texts, wt \in Weights : callResonanceScore(text, text, wt[1], wt[2])
    \/ \E memA \in Records, memB \in Records : callEntanglementStrength(memA, memB)
    \/ \E q1 \in Factors, q2 \in Factors : callHamiltonProduct(q1, q2)
    \/ \E q1 \in Rotations, q2 \in Rotations, t \in SlerpTimes : callSlerp(q1, q2, t)
    \/ \E mems \in MetricCollections : callCalculateEntropy(mems)
    \/ \E mems \in MetricCollections : callCalculateCoherence(mems)
    \/ \E mems \in MetricCollections : callCalculateLyapunov(mems)

SpecFn == Init /\ [][NextFn]_vars

\* ---------------------------------------------------------- SlerpVisualizer
\* t is held in units of 1/Scale, as the scores are; one tick of the
\* animation adds 0.01
TickStep == Scale \div 100

\* the positions the t slider is moved to: 0, 0.5 and 1, of 0 to 1 by 0.01
SliderPositions == {0, Half, One}
\* the values randomQuaternion returns: 1, i and the normalized (1,1,1,1)
RandomQuaternions == {Identity, UnitI, createQuaternion(1, 1, 1, 1)}

\* the t slider moved to v
setT(v) ==
    /\ slerpVisualizer' = [slerpVisualizer EXCEPT !.t = v]
    /\ UNCHANGED <<indexVars, encoderVars, query, settingVars, searchVars, call,
                   stressVars>>

\* a click on Animate or on Pause
setIsPlaying(playing) ==
    /\ slerpVisualizer' = [slerpVisualizer EXCEPT !.isPlaying = playing]
    /\ UNCHANGED <<indexVars, encoderVars, query, settingVars, searchVars, call,
                   stressVars>>

reset ==
    /\ slerpVisualizer' = [slerpVisualizer EXCEPT !.t = 0, !.isPlaying = FALSE]
    /\ UNCHANGED <<indexVars, encoderVars, query, settingVars, searchVars, call,
                   stressVars>>

\* randomize when the two calls of randomQuaternion return r1 and r2
randomize(r1, r2) ==
    /\ slerpVisualizer' = [slerpVisualizer EXCEPT !.q1 = r1, !.q2 = r2, !.t = 0]
    /\ UNCHANGED <<indexVars, encoderVars, query, settingVars, searchVars, call,
                   stressVars>>

\* a tick that holds t at 1 and lets the animation play on
intervalTick_PlaysOn ==
    /\ slerpVisualizer.isPlaying
    /\ slerpVisualizer' =
           [slerpVisualizer EXCEPT !.t = Min(slerpVisualizer.t + TickStep, One)]
    /\ UNCHANGED <<indexVars, encoderVars, query, settingVars, searchVars, call,
                   stressVars>>

\* the callback of the interval, which the effect keeps set while isPlaying
intervalTick ==
    LET next == slerpVisualizer.t + TickStep
    IN /\ slerpVisualizer.isPlaying
       /\ slerpVisualizer' =
              IF next > One
              THEN [slerpVisualizer EXCEPT !.t = One, !.isPlaying = FALSE]
              ELSE [slerpVisualizer EXCEPT !.t = next]
       /\ UNCHANGED <<indexVars, encoderVars, query, settingVars, searchVars, call,
                      stressVars>>

NextSlerp ==
    \/ \E v \in SliderPositions : setT(v)
    \/ setIsPlaying(~slerpVisualizer.isPlaying)
    \/ reset
    \/ \E r1, r2 \in RandomQuaternions : randomize(r1, r2)
    \/ intervalTick

\* the interval fires every 20 ms for as long as isPlaying holds
SpecSlerp == Init /\ [][NextSlerp]_vars /\ WF_vars(intervalTick)

\* ================================================================== claims
\* handleSearch has run on the query and the collection of the state
Searched == searchTime # Null

\* the resonance handleSearch gives to the k-th memory of the collection
Resonance(k) ==
    resonanceScore(encodeText(query), Pattern(memories[k]), alphaWeight, betaWeight)

\* ---------------------------------------------------------------------- C1
\* every memory of the collection scored once, in collection order
ScoredOnce ==
    LET queryEncoded == encodeText(query)
    IN [k \in 1..Len(memories) |->
           Scored(memories[k], queryEncoded, alphaWeight, betaWeight)]

\* the memories that meet minResonance
MeetMinResonance == {k \in 1..Len(memories) : Resonance(k) >= minResonance}

\* the list the spec's order of steps gives: sort every result, then filter,
\* then cut
SortThenFilter(mapped) ==
    LET order == SortOrder([k \in 1..Len(mapped) |-> mapped[k].resonance], Len(mapped))
        sorted == [k \in 1..Len(order) |-> mapped[order[k]]]
        Kept(r) == r.resonance >= minResonance
        filtered == SelectSeq(sorted, Kept)
    IN SubSeq(filtered, 1, Min(maxResults, Len(filtered)))

\* C1: after handleSearch the ranked list holds, for each memory that meets
\* minResonance and whose place (resonance descending, ties in collection
\* order) is within maxResults, its scored result at that place, and nothing
\* else: its length is min(maxResults, number of memories meeting
\* minResonance); sorting before filtering gives the same list.
C1_RankedList ==
    Searched =>
        LET mapped == ScoredOnce
            kept == {k \in 1..Len(mapped) : mapped[k].resonance >= minResonance}
            \* the place of k among those kept: after every kept result of a
            \* higher resonance and every earlier one of the same resonance
            RankOf(k) ==
                1 + Cardinality({h \in kept :
                                    \/ mapped[h].resonance > mapped[k].resonance
                                    \/ /\ mapped[h].resonance = mapped[k].resonance
                                       /\ h < k})
        IN /\ Len(ranked) = Min(maxResults, Cardinality(kept))
           /\ \A k \in kept : RankOf(k) <= Len(ranked) => ranked[RankOf(k)] = mapped[k]
           /\ ranked = SortThenFilter(mapped)

\* a search where the filter drops a memory, the cut drops another, and the
\* sort moves a later memory of the collection to the front
C1_Witness ==
    /\ Searched
    /\ minResonance > 0
    /\ Cardinality(MeetMinResonance) < Len(memories)
    /\ maxResults < Cardinality(MeetMinResonance)
    /\ Len(ranked) = maxResults
    /\ \E k \in MeetMinResonance :
          /\ \E h \in MeetMinResonance : h < k
          /\ ranked[1].memory = memories[k]

\* ---------------------------------------------------------------------- C2
\* the place in the ranked list of a result of a cluster
PlaceOf(r) == CHOOSE p \in 1..Len(ranked) : ranked[p].memory.id = r.memory.id

MembersOf(c) == {PlaceOf(c.results[k]) : k \in 1..Len(c.results)}

\* the places taken by the clusters opened before c
TakenBefore(c) ==
    UNION {MembersOf(clusters[n]) : n \in {m \in 1..Len(clusters) : clusters[m].id < c.id}}

Strength(i, j) ==
    entanglementStrength(Pattern(ranked[i].memory), Pattern(ranked[j].memory))

\* C2: with clustering on, the clusters cover the ranked list; the seed of a
\* cluster is the first place not taken by the clusters opened before it, and
\* its other members are exactly the later places not so taken whose
\* entanglementStrength with the seed is >= clusterThreshold, whatever their
\* strength with the other members.
C2_SeedOnlyClusters ==
    (Searched /\ enableClustering) =>
        /\ UNION {MembersOf(clusters[n]) : n \in 1..Len(clusters)} = 1..Len(ranked)
        /\ {clusters[n].id : n \in 1..Len(clusters)} = 0..(Len(clusters) - 1)
        /\ \A n \in 1..Len(clusters) :
              LET c == clusters[n]
                  free == (1..Len(ranked)) \ TakenBefore(c)
                  seed == PlaceOf(c.results[1])
              IN /\ seed \in free
                 /\ \A p \in free : seed <= p
                 /\ MembersOf(c) =
                       {seed} \cup {j \in free : j > seed /\
                                       Strength(seed, j) >= clusterThreshold}

\* a cluster with a member besides its seed, and a later result left out of it
\* that is below the threshold against the seed and at or above it against
\* that member
C2_Witness ==
    /\ Searched
    /\ enableClustering
    /\ \E n \in 1..Len(clusters) :
          LET c == clusters[n]
              seed == PlaceOf(c.results[1])
          IN \E m \in MembersOf(c) \ {seed}, j \in 1..Len(ranked) :
                /\ j > m
                /\ j \notin MembersOf(c)
                /\ j \notin TakenBefore(c)
                /\ Strength(seed, j) < clusterThreshold
                /\ Strength(m, j) >= clusterThreshold

\* ---------------------------------------------------------------------- C3
\* C3: after handleSearch, a memory whose content is the query text has the
\* resonance alphaWeight + betaWeight (1 when both are 0.5), no memory has a
\* higher one, and when no other memory has the same one it is first in the
\* ranked list.
C3_ExactMatchFirst ==
    Searched =>
        \A k \in 1..Len(memories) :
            memories[k].content = query =>
                /\ Resonance(k) = alphaWeight + betaWeight
                /\ (alphaWeight = Half /\ betaWeight = Half) => Resonance(k) = One
                /\ \A h \in 1..Len(memories) : Resonance(h) <= Resonance(k)
                /\ (\A h \in 1..Len(memories) \ {k} : Resonance(h) # Resonance(k))
                      => (Len(ranked) >= 1 /\ ranked[1].memory = memories[k])

\* the memory that matches the query is the last of a collection of three, no
\* other memory has its resonance, and the search put it first
C3_Witness ==
    /\ Searched
    /\ Len(memories) = 3
    /\ memories[3].content = query
    /\ alphaWeight = Half
    /\ Resonance(3) = One
    /\ \A h \in 1..2 : Resonance(h) < One
    /\ ranked[1].memory = memories[3]

\* ---------------------------------------------------------------------- C4
IsSelfResonance ==
    /\ call.fn = "resonanceScore"
    /\ call.queryText = call.patternText
    /\ call.alpha = Half
    /\ call.beta = Half

\* C4, as stated: resonanceScore(encodeText(s), encodeText(s)) with the
\* default weights is 1 for every string s, the empty string included.
C4_SelfResonanceOfAnyText == IsSelfResonance => call.ret = One

\* C4, amended: resonanceScore(encodeText(s), encodeText(s)) with the default
\* weights is 1 for every non-empty string s, and 0.5 for the empty string.
C4_SelfResonance ==
    IsSelfResonance => call.ret = (IF call.queryText = <<>> THEN Half ELSE One)

C4_Witness ==
    /\ IsSelfResonance
    /\ Len(call.queryText) >= 2
    /\ call.ret = One

\* ---------------------------------------------------------------------- C5
IsSelfEntanglement ==
    /\ call.fn = "entanglementStrength"
    /\ call.memA = call.memB

\* C5, as stated: entanglementStrength(m, m) is 1 for every record m with a
\* unit quaternion, whatever the size of its signature, 0 included.
C5_SelfEntanglementOfAnyRecord == IsSelfEntanglement => call.ret = One

\* C5, amended: entanglementStrength(m, m) is 1 for every record m with a unit
\* quaternion and a non-empty signature, and 0.5 when the signature is empty.
C5_SelfEntanglement ==
    IsSelfEntanglement =>
        call.ret = (IF call.memA.primeSignature = <<>> THEN Half ELSE One)

C5_Witness ==
    /\ IsSelfEntanglement
    /\ Len(call.memA.primeSignature) >= 2
    /\ call.memA.quaternion # Identity
    /\ call.ret = One

\* ---------------------------------------------------------------------- C6
\* |A \cap B| / max(|A|, |B|), and 0 when both sets are empty
Overlap(A, B) ==
    IF Max(Cardinality(A), Cardinality(B)) = 0 THEN 0
    ELSE Div(Cardinality(A \cap B), Max(Cardinality(A), Cardinality(B)))

\* C6: entanglementStrength(a, b) = entanglementStrength(b, a); it is half the
\* sum of the signature term |sigA \cap sigB| / max(|sigA|, |sigB|) (0 when
\* both are empty) and of |dot|, and each term is the same for (b, a).
C6_EntanglementSymmetric ==
    call.fn = "entanglementStrength" =>
        LET a == call.memA
            b == call.memB
            A == Range(a.primeSignature)
            B == Range(b.primeSignature)
        IN /\ call.ret = entanglementStrength(b, a)
           /\ call.ret = Mul(Half, Overlap(A, B) + Abs(dot(a.quaternion, b.quaternion)))
           /\ Overlap(A, B) = Overlap(B, A)
           /\ Abs(dot(a.quaternion, b.quaternion)) = Abs(dot(b.quaternion, a.quaternion))

C6_Witness ==
    /\ call.fn = "entanglementStrength"
    /\ Cardinality(Range(call.memA.primeSignature))
           < Cardinality(Range(call.memB.primeSignature))
    /\ Range(call.memA.primeSignature) \cap Range(call.memB.primeSignature) # {}
    /\ call.memA.quaternion # call.memB.quaternion
    /\ call.ret > 0
    /\ call.ret < One

\* ---------------------------------------------------------------------- C7
\* C7: jaccardSimilarity(sigA, sigB) is |A \cap B| / |A \cup B| over the sets
\* A, B of the distinct values of the two arrays; it is 0 when both are empty,
\* 0 when one is empty or the two are disjoint, and the same for (sigB, sigA).
C7_JaccardOfSets ==
    call.fn = "jaccardSimilarity" =>
        LET A == Range(call.sig1)
            B == Range(call.sig2)
        IN /\ call.ret = (IF A \cup B = {} THEN 0
                          ELSE Div(Cardinality(A \cap B), Cardinality(A \cup B)))
           /\ (A \cap B = {} => call.ret = 0)
           /\ call.ret = jaccardSimilarity(call.sig2, call.sig1)

C7_Witness ==
    /\ call.fn = "jaccardSimilarity"
    /\ Len(call.sig1) > Cardinality(Range(call.sig1))
    /\ Range(call.sig1) \cap Range(call.sig2) # {}
    /\ Range(call.sig1) # Range(call.sig2)
    /\ call.ret > 0
    /\ call.ret < One

\* ---------------------------------------------------------------------- C8
IsSelfJaccard ==
    /\ call.fn = "jaccardSimilarity"
    /\ call.sig1 = call.sig2

\* C8, as stated: jaccardSimilarity(sig, sig) = 1 for every signature sig.
C8_SelfJaccardOfAnySignature == IsSelfJaccard => call.ret = One

\* C8, amended: jaccardSimilarity(sig, sig) = 1 for every non-empty signature
\* sig, and jaccardSimilarity([], []) = 0.
C8_SelfJaccard ==
    IsSelfJaccard => call.ret = (IF call.sig1 = <<>> THEN 0 ELSE One)

C8_Witness ==
    /\ IsSelfJaccard
    /\ Cardinality(Range(call.sig1)) >= 2
    /\ Len(call.sig1) > Cardinality(Range(call.sig1))
    /\ call.ret = One

C10_CaseInsensitive ==
    call.fn = "encodeText" => encodeText(toUpperCase(call.text)) = call.ret

\* --------------------------------------------------------------------- C11
\* C11: encodeText("") returns an empty signature and exactly the identity
\* quaternion (1,0,0,0): nothing is pushed, the sums stay 0 and are divided
\* by 1, and normalize maps the zero quaternion to the identity.
C11_EmptyText ==
    (call.fn = "encodeText" /\ call.text = <<>>) =>
        /\ call.ret.primeSignature = <<>>
        /\ call.ret.quaternion = createQuaternion(1, 0, 0, 0)
        /\ PrimeSequence(call.text) = <<>>
        /\ HarmonicQuaternion(<<>>) = normalize(createQuaternion(0, 0, 0, 0))
        /\ normalize(createQuaternion(0, 0, 0, 0)) = createQuaternion(1, 0, 0, 0)

C11_Witness ==
    /\ call.fn = "encodeText"
    /\ call.text = <<>>
    /\ call.ret = [quaternion |-> Identity, primeSignature |-> <<>>]

\* --------------------------------------------------------------------- C12
\* the quaternion and the signature of m are the encoding of its content
EncodedFromContent(m) ==
    [quaternion |-> m.quaternion, primeSignature |-> m.primeSignature]
        = encodeText(m.content)

\* each memory of the new collection is a memory of the old one, field for
\* field, or one created in this step
KeptOrCreated ==
    \A k \in 1..Len(memories') :
        \/ memories'[k] \in Range(memories)
        \/ memories'[k].id >= nextId /\ memories'[k].id < nextId'

\* the changes the collection undergoes
CollectionChange ==
    \/ memories' = memories
    \/ /\ Len(memories') = Len(memories) + 1
       /\ Tail(memories') = memories
       /\ memories'[1].id = nextId
    \/ \E n \in 1..Len(memories) : memories' = WithoutId(memories, memories[n].id)
    \/ memories' = <<>>
    \/ \A n \in 1..Len(memories') : memories'[n].id >= nextId

\* C12: in every state every memory of the collection carries the encoding
\* of its content; and in every step each memory of the new collection is a
\* memory of the old one, field for field, or a newly created one, the
\* collection changing only by a prepended new memory, by the removal of the
\* memories with one id, by clearing, or by replacement with a new batch.
C12_MemoriesImmutable ==
    /\ [](\A k \in 1..Len(memories) : EncodedFromContent(memories[k]))
    /\ [][KeptOrCreated /\ CollectionChange]_vars

\* a typed memory prepended to what is left of a generated batch, one memory
\* of which was deleted and another selected from the list
C12_Witness ==
    /\ Len(memories) = 2
    /\ memories[1].content \in Contents
    /\ Len(memories[2].content) > MaxLen
    /\ nextId - 1 > Len(memories)
    /\ selectedMemory = memories[2]
    /\ \A k \in 1..2 : EncodedFromContent(memories[k])

\* --------------------------------------------------------------------- C13
\* the fields of a Memory
MemoryFields == {"id", "content", "quaternion", "primeSignature", "timestamp"}

\* C13: a search, with the clustering it runs, leaves the collection as it
\* was: the same memories in the same order, each with its five fields as
\* before and no other; the ranked list and the clusters are structures of
\* their own, whose results refer to memories of the collection.
C13_SearchLeavesCollection ==
    [][/\ memories' = memories
       /\ \A k \in 1..Len(memories') : DOMAIN memories'[k] = MemoryFields
       /\ \A p \in 1..Len(ranked') : ranked'[p].memory \in Range(memories)
       /\ \A n \in 1..Len(clusters') : \A p \in 1..Len(clusters'[n].results) :
             clusters'[n].results[p].memory \in Range(memories)]_vars

\* a search with clustering whose ranked list is in another order than the
\* collection, which is still in the order it was built in
C13_Witness ==
    /\ Searched
    /\ enableClustering
    /\ Len(memories) = 3
    /\ \A k \in 1..3 : memories[k].id = 4 - k
    /\ Len(ranked) = 3
    /\ ranked[1].memory = memories[3]
    /\ Len(clusters) >= 2

\* --------------------------------------------------------------------- C14
\* the arithmetic mean of the numbers xs is the score avg, to the rounding
\* of a quotient of scores
IsMeanOf(avg, xs) ==
    /\ avg * Len(xs) <= Sum(xs)
    /\ Sum(xs) < (avg + 1) * Len(xs)

\* C14: with clustering on, the clusters a search stores are in descending
\* order of avgResonance, clusters of equal avgResonance in the order they
\* were created in (ascending id), and the avgResonance of each is the
\* arithmetic mean of the resonance of its results.
C14_ClustersByAverage ==
    (Searched /\ enableClustering) =>
        /\ \A n \in 1..Len(clusters) :
              IsMeanOf(clusters[n].avgResonance,
                       [p \in 1..Len(clusters[n].results) |->
                           clusters[n].results[p].resonance])
        /\ \A n \in 1..(Len(clusters) - 1) :
              \/ clusters[n].avgResonance > clusters[n + 1].avgResonance
              \/ /\ clusters[n].avgResonance = clusters[n + 1].avgResonance
                 /\ clusters[n].id < clusters[n + 1].id

\* the cluster created first, which holds the best result, is stored after a
\* cluster created later, whose average is higher
C14_Witness ==
    /\ Searched
    /\ enableClustering
    /\ Len(clusters) >= 2
    /\ clusters[1].id > 0
    /\ \E n \in 2..Len(clusters) :
          /\ clusters[n].id = 0
          /\ Len(clusters[n].results) >= 2
          /\ clusters[n].avgResonance < clusters[1].avgResonance

\* --------------------------------------------------------------------- C15
\* C15: with clustering off, a search stores one cluster: its id is 0, its
\* results are the ranked list, cut to maxResults, in rank order, and its
\* avgResonance is the mean of their resonance, or 0 when there is none;
\* no entanglementStrength enters it.
C15_SingleCluster ==
    (Searched /\ ~enableClustering) =>
        /\ Len(clusters) = 1
        /\ clusters[1].id = 0
        /\ clusters[1].results = ranked
        /\ ranked = <<>> => clusters[1].avgResonance = 0
        /\ ranked # <<>> =>
              IsMeanOf(clusters[1].avgResonance,
                       [p \in 1..Len(ranked) |-> ranked[p].resonance])

\* a search with clustering off whose ranked list holds two results that the
\* clustering would have put apart
C15_Witness ==
    /\ Searched
    /\ ~enableClustering
    /\ Len(ranked) >= 2
    /\ Len(ranked) < Len(memories)
    /\ \E j \in 2..Len(ranked) : Strength(1, j) < clusterThreshold
    /\ clusters[1].results = ranked

\* --------------------------------------------------------------------- C16
\* the ids of the memories of a list of results, in order
IdsOf(results) == [p \in 1..Len(results) |-> results[p].memory.id]

IsProduct(q1, q2) ==
    /\ call.fn = "hamiltonProduct"
    /\ call.q1 = q1
    /\ call.q2 = q2

\* C18: hamiltonProduct is Hamilton's multiplication: i*i, j*j, k*k and
\* (i*j)*k are (-1,0,0,0), i*j is k and j*i is -k, so that the product of
\* i and j taken in the two orders differs.
C18_HamiltonRelations ==
    /\ IsProduct(UnitI, UnitI) => call.ret = MinusOne
    /\ IsProduct(UnitJ, UnitJ) => call.ret = MinusOne
    /\ IsProduct(UnitK, UnitK) => call.ret = MinusOne
    /\ IsProduct(UnitI, UnitJ) =>
          /\ call.ret = UnitK
          /\ hamiltonProduct(call.ret, UnitK) = MinusOne
          /\ call.ret # hamiltonProduct(call.q2, call.q1)
    /\ IsProduct(UnitJ, UnitI) => call.ret = createQuaternion(0, 0, 0, -1)

\* the product j*i, which is -k where i*j is k
C18_Witness ==
    /\ IsProduct(UnitJ, UnitI)
    /\ call.ret = createQuaternion(0, 0, 0, -1)
    /\ hamiltonProduct(UnitI, UnitJ) = UnitK

\* --------------------------------------------------------------------- C19
\* -q
Opposite(q) == createQuaternion(-q.w, -q.x, -q.y, -q.z)

\* C19 as stated: slerp(a, b, 0) is a and slerp(a, b, 1) is b, for all unit
\* quaternions a and b.
C19_SlerpEndsAtArguments ==
    call.fn = "slerp" =>
        /\ call.t = 0 => call.ret = call.q1
        /\ call.t = One => call.ret = call.q2

\* C19: slerp(a, b, 0) is a for all unit quaternions a and b; slerp(a, b, 1)
\* is b when dot(a, b) is not negative, and -b when it is.
C19_SlerpEnds ==
    call.fn = "slerp" =>
        /\ call.t = 0 => call.ret = call.q1
        /\ call.t = One =>
              call.ret = IF dot(call.q1, call.q2) < 0 THEN Opposite(call.q2)
                         ELSE call.q2

\* slerp at t = 1 between two quaternions more than a right angle apart, but
\* not opposite, which returns the opposite of the second
C19_Witness ==
    /\ call.fn = "slerp"
    /\ call.t = One
    /\ dot(call.q1, call.q2) < 0
    /\ dot(call.q1, call.q2) > -One
    /\ call.ret = Opposite(call.q2)
    /\ call.ret # call.q2

\* --------------------------------------------------------------------- C20
\* the primes of the signatures of the memories of the call
PrimesOfCall ==
    UNION {Range(call.memories[k].primeSignature) : k \in 1..Len(call.memories)}

\* C20: every call of a metric returns a number, and the fallbacks are the
\* ones defined: calculateEntropy is 0 for no memory, for signatures that
\* are all empty, and for one distinct prime; calculateCoherence is 1 for no
\* memory; calculateLyapunov is 0 for fewer than two memories.
C20_MetricFallbacks ==
    /\ call.fn \in {"calculateEntropy", "calculateCoherence", "calculateLyapunov"}
          => call.ret \in Int
    /\ (call.fn = "calculateEntropy" /\ Cardinality(PrimesOfCall) <= 1)
          => call.ret = 0
    /\ (call.fn = "calculateCoherence" /\ call.memories = <<>>)
          => call.ret = One
    /\ (call.fn = "calculateLyapunov" /\ Len(call.memories) < 2)
          => call.ret = 0

\* calculateCoherence of no memory, which is 1 where the other two metrics
\* are 0
C20_Witness ==
    /\ call.fn = "calculateCoherence"
    /\ call.memories = <<>>
    /\ call.ret = One
    /\ calculateEntropy(call.memories) = 0
    /\ calculateLyapunov(call.memories) = 0

\* --------------------------------------------------------------------- C21
\* C21: in every state of the search settings alphaWeight + betaWeight = 1
\* with both weights in [0, 1]; a move of either weight slider to v leaves
\* the other weight at 1 - v.
C21_WeightsComplementary ==
    /\ alphaWeight \in 0..One
    /\ betaWeight \in 0..One
    /\ alphaWeight + betaWeight = One

\* the beta slider moved to its upper end, away from the initial 0.6 / 0.4
C21_Witness ==
    /\ betaWeight = One
    /\ alphaWeight = 0
    /\ minResonance = Step(18)

\* --------------------------------------------------------------------- C22
\* the places <<n, r>> of the results held by the clusters
Slots ==
    UNION {{<<n, r>> : r \in 1..Len(clusters[n].results)} : n \in 1..Len(clusters)}

\* C22: the clusters of a search with clustering on partition the ranked
\* list: they hold as many results as the list, each result of the list is
\* at exactly one place of one cluster, carrying the id of that cluster as
\* its clusterId and otherwise unchanged; the ids are the distinct integers
\* 0..k-1, and a cluster of a smaller id has its seed earlier in the list.
C22_ClustersPartition ==
    (Searched /\ enableClustering) =>
        /\ Cardinality(Slots) = Len(ranked)
        /\ \A p \in 1..Len(ranked) :
              Cardinality({sl \in Slots :
                  clusters[sl[1]].results[sl[2]] =
                      WithClusterId(ranked[p], clusters[sl[1]].id)}) = 1
        /\ {clusters[n].id : n \in 1..Len(clusters)} = 0..(Len(clusters) - 1)
        /\ \A n \in 1..Len(clusters), m \in 1..Len(clusters) :
              /\ (n # m => clusters[n].id # clusters[m].id)
              /\ (clusters[n].id < clusters[m].id =>
                     PlaceOf(clusters[n].results[1]) < PlaceOf(clusters[m].results[1]))

\* three ranked results in two clusters, one of two results, stored in
\* another order than they were created in
C22_Witness ==
    /\ Searched
    /\ enableClustering
    /\ Len(ranked) = 3
    /\ Len(clusters) = 2
    /\ clusters[1].id = 1
    /\ \E n \in 1..2 : Len(clusters[n].results) = 2

\* --------------------------------------------------------------------- C23
\* the place in the ranked list of the seed of the n-th stored cluster
SeedOf(n) == PlaceOf(clusters[n].results[1])

\* C23: with clustering on, two seeds are always below clusterThreshold in
\* entanglementStrength; a member that is not the seed is at or above the
\* threshold with the seed of its cluster and below it with every seed ranked
\* earlier; the members of a cluster are in ranked order, the seed first, and
\* no member has a higher resonance than the seed.
C23_SeedsAndMembers ==
    (Searched /\ enableClustering) =>
        /\ \A n \in 1..Len(clusters), m \in 1..Len(clusters) :
              n # m => Strength(SeedOf(n), SeedOf(m)) < clusterThreshold
        /\ \A n \in 1..Len(clusters) : \A r \in 2..Len(clusters[n].results) :
              LET j == PlaceOf(clusters[n].results[r])
              IN /\ Strength(SeedOf(n), j) >= clusterThreshold
                 /\ \A m \in 1..Len(clusters) :
                       Strength(SeedOf(m), j) >= clusterThreshold
                           => SeedOf(n) <= SeedOf(m)
                 /\ PlaceOf(clusters[n].results[r - 1]) < j
                 /\ clusters[n].results[1].resonance >= clusters[n].results[r].resonance

\* a member that is at or above the threshold with two seeds, and sits in the
\* cluster of the earlier one
C23_Witness ==
    /\ Searched
    /\ enableClustering
    /\ \E n \in 1..Len(clusters), m \in 1..Len(clusters) :
          /\ SeedOf(n) < SeedOf(m)
          /\ \E r \in 2..Len(clusters[n].results) :
                Strength(SeedOf(m), PlaceOf(clusters[n].results[r])) >= clusterThreshold

\* --------------------------------------------------------------------- C24
\* C24: every cluster a search stores holds at least one result, with
\* clustering on or off; a search whose ranked list is empty stores no
\* cluster, which is when "No results found" is shown.
C24_NoEmptyCluster ==
    Searched =>
        /\ \A n \in 1..Len(clusters) : Len(clusters[n].results) >= 1
        /\ ranked = <<>> => clusters = <<>>

\* --------------------------------------------------------------------- C25
\* C25: selectedMemory is null or a memory of the collection, after any
\* interleaving of encode, select (in the memory list or on a search result
\* of the decoder), delete, clear and stress-test batches.
C25_SelectedInCollection ==
    selectedMemory = Null \/ selectedMemory \in Range(memories)

\* --------------------------------------------------------------------- C26
\* the clusters the loop of the test suite builds from the memories of the
\* ranked list, at the threshold of the search
TestClusters ==
    TestClusterLoop([p \in 1..Len(ranked) |-> ranked[p].memory], clusterThreshold,
                    1, {}, <<>>)

\* the contents of the results of a cluster, in order
ContentsOf(c) == [r \in 1..Len(c.results) |-> c.results[r].memory.content]

\* C26 as stated: the loop of the test suite gives the clusters clusterResults
\* returns: the same members in the same order, cluster by cluster.
C26_SameClusterList ==
    (Searched /\ enableClustering) =>
        TestClusters = [n \in 1..Len(clusters) |-> ContentsOf(clusters[n])]

\* C26: the loop of the test suite gives the clusters clusterResults builds,
\* in the order it creates them: the cluster of id c has the members, in the
\* order, of the (c+1)-th cluster of the test loop; clusterResults returns
\* them sorted by avgResonance, which the test loop does not do.
C26_SameClustersById ==
    (Searched /\ enableClustering) =>
        /\ Len(TestClusters) = Len(clusters)
        /\ \A n \in 1..Len(clusters) :
              ContentsOf(clusters[n]) = TestClusters[clusters[n].id + 1]

\* a search whose clusters are stored in another order than created, the
\* cluster created first holding two results
C26_Witness ==
    /\ Searched
    /\ enableClustering
    /\ Len(clusters) >= 2
    /\ clusters[1].id > 0
    /\ Len(TestClusters[1]) >= 2
    /\ TestClusters[1] = ContentsOf(clusters[2])

\* C27: a run of the stress test in which Stop was pressed at a yield ends
\* with isRunning false, publishes no benchmark results and hands no
\* memories to onMemoriesGenerated: the collection and the selection of the
\* application are as they were before the run ended.  abortRef is set from
\* the press of Stop to the next click on Run Stress Test.
RunEnds == stressTest.isRunning /\ ~stressTest'.isRunning

C27_StoppedRunPublishesNothing ==
    [][(RunEnds /\ stressTest.abortRef) =>
          /\ stressTest'.results = <<>>
          /\ UNCHANGED <<memories, selectedMemory, activeQuaternion>>]_vars

\* Stop pressed in one of the first three loops: the run has ended and has
\* published nothing
C27_StoppedEarly ==
    /\ ~stressTest.isRunning
    /\ stressTest.abortRef
    /\ stressTest.results = <<>>

\* Stop pressed in the entanglement loop: the run has ended, its results are
\* published and its memories are the collection
C27_StoppedLate ==
    /\ ~stressTest.isRunning
    /\ stressTest.abortRef
    /\ stressTest.results = Operations
    /\ memories # <<>>

\* C28: t of SlerpVisualizer is within [0,1] in every reachable state; a
\* tick of a playing animation raises t by 0.01, unless that would exceed 1,
\* and then it sets t to 1 and isPlaying to false; and once the user input
\* has ended, so that every later step is a tick, the animation is
\* eventually stopped for good, which a tick does only with t = 1.
TickAsDescribed ==
    IF slerpVisualizer.t + TickStep <= One
    THEN /\ slerpVisualizer'.t = slerpVisualizer.t + TickStep
         /\ slerpVisualizer'.isPlaying
    ELSE /\ slerpVisualizer'.t = One
         /\ ~slerpVisualizer'.isPlaying

C28_AnimationStopsAtOne ==
    /\ [](slerpVisualizer.t \in 0..One)
    /\ [][intervalTick => TickAsDescribed]_vars
    /\ (<>[][intervalTick]_vars) => <>[](~slerpVisualizer.isPlaying)

\* the animation plays and its ticks have brought t to 0.97, which is no
\* position the slider is moved to
C28_Witness ==
    /\ slerpVisualizer.isPlaying
    /\ slerpVisualizer.t = One - 3 * TickStep

\* C29: in every state of the Index page, activeQuaternion is the quaternion
\* of the selected memory when a memory is selected, and the identity
\* (1,0,0,0) when selectedMemory is null.
C29_ActiveQuaternionFollowsSelection ==
    activeQuaternion = IF selectedMemory = Null THEN Identity
                       ELSE selectedMemory.quaternion

\* the selected memory was deleted while others stay in the collection
C29_Witness ==
    /\ selectedMemory = Null
    /\ memories # <<>>
    /\ activeQuaternion = Identity

\* C30: maxResults starts at 20 and is an integer in [1,100] in every state;
\* an edit of the Max Results input whose entry parses to a number n other
\* than 0 sets it to min(100, max(1, n)), and an edit whose entry is no
\* number or parses to 0 sets it to 20.  Parsed gives, for each entry of the
\* model, what JavaScript's parseInt returns for it: "" is no number,
\* "1.5" and "1e3" parse to 1, "0.5" parses to 0.
Parsed ==
    [entry \in MaxResultsEntries |->
        IF entry = <<>> THEN <<>>
        ELSE IF entry = <<48>> THEN <<0>>
        ELSE IF entry = <<50>> THEN <<2>>
        ELSE IF entry = <<49, 53, 48>> THEN <<150>>
        ELSE IF entry = <<45, 51>> THEN <<0 - 3>>
        ELSE IF entry = <<49, 46, 53>> THEN <<1>>
        ELSE IF entry = <<48, 46, 53>> THEN <<0>>
        ELSE <<1>>]

Described(entry) ==
    IF Parsed[entry] = <<>> \/ Parsed[entry] = <<0>> THEN 20
    ELSE Min(100, Max(1, Parsed[entry][1]))

C30_MaxResultsInRange ==
    /\ maxResults = 20
    /\ [](maxResults \in 1..100)
    /\ [][\A entry \in MaxResultsEntries :
             setMaxResults(entry) => maxResults' = Described(entry)]_vars

\* "150" was entered: maxResults is at its upper end
C30_Witness == maxResults = 100
====
